---- MODULE Spec2Model ----
(***************************************************************************)
(* A model of scrapy/utils/reactor.py (CallLaterOnce, reactor and event    *)
(* loop installation, listen_tcp) and of scrapy/extensions/memusage.py     *)
(* (the MemoryUsage extension).                                            *)
(*                                                                         *)
(* The subsystems are independent, so each has a specification of its own *)
(* over the same variables: SpecCall (CallLaterOnce), SpecReactor          *)
(* (install/verify), SpecListen (listen_tcp) and SpecMem (MemoryUsage).    *)
(***************************************************************************)
EXTENDS Integers, Sequences, FiniteSets, TLC

(***************************************************************************)
(* Bounds of the model.                                                    *)
(***************************************************************************)
\* the reactor clock runs from 0 to MaxTime
MaxTime == 1
\* call_later handles alive at the same time
MaxHandles == 2
\* Deferreds created by wait() in one behaviour
MaxWaiters == 2
\* invocations of the wrapped callable in one behaviour
MaxFires == 2

\* event loop instances constructed in one behaviour
MaxLoops == 3

\* ports of the host that listen_tcp is asked for: LowPort..LowPort+MaxPorts-1
MaxPorts == 3

\* timer-driven ticks of the monitor's looping calls in one run
MaxTicks == 2
\* engine_started signals delivered to one MemoryUsage instance
MaxRuns == 2

\* None, for self._call (reactor.py:59)
None == 0

\* delays passed to schedule()
Delays == 0..MaxTime
\* values the bound arguments self._a may have
ArgValues == {"a1", "a2"}
\* what the wrapped callable does when invoked: return, raise, or call
\* self.schedule(delay) and return
Behaviours == {"return", "raise", "reschedule"}

Handles == 1..MaxHandles
Waiters == 1..MaxWaiters

VARIABLES
    \* ---- CallLaterOnce and the reactor's delayed calls ----
    now,         \* the reactor clock
    calls,       \* delayed calls pending in the reactor: [h, due, d]; d = 0: the
                 \* CallLaterOnce object itself, d > 0: Deferred d's callback
    _call,       \* CallLaterOnce._call: None or a handle
    _deferreds,  \* CallLaterOnce._deferreds: sequence of Deferreds
    _a,          \* CallLaterOnce._a: the bound arguments
    dstate,      \* per Deferred: "new", "waiting", "released", "done"
    nfired,      \* invocations of the wrapped callable so far
    raised,      \* whether the last invocation of the callable raised
    kept,        \* history: the waiters that were registered when cancel() was
                 \* last called and that no invocation has released since
    win,         \* history: the scheduling window that is open
    done,        \* history: the last scheduling window that ended in a fire
    \* ---- the process-wide reactor and the asyncio event loop ----
    installed,   \* class of the installed reactor ("twisted.internet.reactor"
                 \* in sys.modules), NoReactor when none is installed
    reactor_loop,\* reactor._asyncioEventloop: a loop instance, 0 when the
                 \* installed reactor has none
    current_loop,\* the event loop bound as current, 0 when none is
    loops,       \* event loop instances constructed: instance i has class loops[i]
    res,         \* the last call into the module: arguments, outcome, and
                 \* the state it started from
    prev,        \* the call before it
    \* ---- the MemoryUsage extension ----
    limit,       \* self.limit, in bytes; 0: no limit
    warning,     \* self.warning, in bytes; 0: no warning
    notify_mails,\* self.notify_mails
    platform,    \* sys.platform
    warned,      \* self.warned
    stats,       \* crawler.stats: the keys set and their values
    tasks,       \* self.tasks: the looping calls of the run, in order
    running,     \* the looping calls that are running
    phase,       \* the engine: "idle", "running", "stopped"
    run,         \* engine_started signals delivered so far
    spider,      \* crawler.engine.spider is not None
    out,         \* what the monitor did in this run: mails, logs, requests
    last,        \* the last operation, its sample and the state it began in
    \* ---- listen_tcp and the host's TCP ports ----
    occupied,    \* the ports of the host that something listens on
    listeners,   \* the ports that listeners returned by listen_tcp are bound to
    lres         \* the last listen_tcp call: arguments, ports tried, outcome

callVars ==
    <<now, calls, _call, _deferreds, _a, dstate, nfired, raised, kept, win, done>>

reactorVars == <<installed, reactor_loop, current_loop, loops, res, prev>>

memVars == <<limit, warning, notify_mails, platform, warned, stats, tasks, running,
             phase, run, spider, out, last>>

listenVars == <<occupied, listeners, lres>>

vars == <<callVars, reactorVars, memVars, listenVars>>

Range(s) == {s[i] : i \in DOMAIN s}

SelfCalls(cs) == {c \in cs : c.d = 0}

(***************************************************************************)
(* scrapy.utils.asyncio.call_later and CallLaterResult.cancel              *)
(***************************************************************************)
\* a handle that nothing refers to: not a pending call's, not self._call
FreeHandles(cs, c) == {h \in Handles : h # c /\ \A x \in cs : x.h # h}

NewHandle(cs, c) == CHOOSE h \in FreeHandles(cs, c) : \A g \in FreeHandles(cs, c) : h <= g

\* call_later(delay, f): f runs once the clock reaches now + delay
call_later(cs, h, delay, d) == cs \cup {[h |-> h, due |-> now + delay, d |-> d]}

\* CallLaterResult.cancel(): the delayed call is dropped if it is still
\* pending; nothing happens if it was called or cancelled before
handle_cancel(cs, h) == {x \in cs : x.h # h}

(***************************************************************************)
(* CallLaterOnce                                                           *)
(***************************************************************************)
\* mutant of schedule_on: every schedule() calls call_later
schedule_on_always(c, cs, delay) ==
    IF FreeHandles(cs, c) = {}
    THEN [call |-> c, calls |-> cs]
    ELSE LET h == NewHandle(cs, c)
         IN  [call |-> h, calls |-> call_later(cs, h, delay, 0)]

\* schedule() on a CallLaterOnce whose _call is c, with cs pending in the
\* reactor: the new _call and the new pending calls
schedule_on(c, cs, delay) ==
    IF c = None
    THEN LET h == NewHandle(cs, c)
         IN  [call |-> h, calls |-> call_later(cs, h, delay, 0)]
    ELSE [call |-> c, calls |-> cs]

\* cancel(): self._call is cancelled and is left in place
cancel_on(c, cs) == IF c # None THEN handle_cancel(cs, c) ELSE cs

\* history: no scheduling window is open
NoWin ==
    [open |-> FALSE, clean |-> FALSE, h |-> None, due |-> 0, multi |-> FALSE,
     byfire |-> FALSE]

\* history: no scheduling window has ended yet
NoDone ==
    [valid |-> FALSE, clean |-> FALSE, multi |-> FALSE, due |-> 0, at |-> 0,
     args |-> "none", byfire |-> FALSE]

\* history: the window that a schedule(delay) opens when it creates the delayed
\* call h; it is clean when no older delayed call of the object is pending;
\* byfire: the schedule was called by the callable, during its invocation
OpenWin(h, delay, stale, byfire) ==
    [open |-> TRUE, clean |-> (stale = {}), h |-> h, due |-> now + delay,
     multi |-> FALSE, byfire |-> byfire]

\* history: the open window as recorded when the invocation run by h ends it
CloseWin(h, args) ==
    [valid |-> TRUE, clean |-> (win.clean /\ h = win.h), multi |-> win.multi,
     due |-> win.due, at |-> now, args |-> args, byfire |-> win.byfire]

InitCallLaterOnce ==
    /\ now = 0
    /\ calls = {}
    /\ _call = None
    /\ _deferreds = <<>>
    /\ _a \in ArgValues
    /\ dstate = [d \in Waiters |-> "new"]
    /\ nfired = 0
    /\ raised = FALSE
    /\ kept = {}
    /\ win = NoWin
    /\ done = NoDone

\* CallLaterOnce.schedule(delay)
schedule(delay) ==
    /\ now + delay <= MaxTime
    /\ _call = None => FreeHandles(calls, _call) # {}
    /\ LET r == schedule_on(_call, calls, delay)
       IN  /\ _call' = r.call
           /\ calls' = r.calls
           /\ win' = IF _call = None
                     THEN OpenWin(r.call, delay, SelfCalls(calls), FALSE)
                     ELSE IF win.open /\ now + delay # win.due
                          THEN [win EXCEPT !.multi = TRUE]
                          ELSE win
    /\ UNCHANGED <<now, _deferreds, _a, dstate, nfired, raised, kept, done>>
    /\ UNCHANGED <<reactorVars, memVars, listenVars>>

\* CallLaterOnce.cancel()
cancel ==
    /\ calls' = cancel_on(_call, calls)
    /\ win' = IF win.open /\ _call # None THEN [win EXCEPT !.clean = FALSE] ELSE win
    /\ kept' = Range(_deferreds)
    /\ UNCHANGED <<now, _call, _deferreds, _a, dstate, nfired, raised, done>>
    /\ UNCHANGED <<reactorVars, memVars, listenVars>>

\* the arguments __call__ passes to the callable: self._a, self._kw
bound_args == _a

\* __call__, lines 80-81: call_later(0, d.callback, None) for every waiter
release(cs, ds) == cs \cup {[h |-> None, due |-> now, d |-> ds[i]] : i \in DOMAIN ds}

\* mutant of clear_call: the pending marker is not cleared before the callable
clear_call_late(c) == c

\* __call__, line 77: self._call = None, before the callable is invoked
clear_call(c) == None

\* CallLaterOnce.__call__ with cs pending in the reactor; the callable does
\* beh (and, for "reschedule", calls self.schedule(delay) before it returns).
\* h is the handle of the delayed call that runs it, None for a direct call.
__call__(cs, h, beh, delay) ==
    /\ nfired < MaxFires
    /\ nfired' = nfired + 1
    /\ raised' = (beh = "raise")
    /\ done' = IF win.open THEN CloseWin(h, bound_args) ELSE done
    /\ CASE beh = "raise" ->
              \* line 78 raises: lines 80-82 do not run, the exception
              \* propagates to the caller (the reactor, for a delayed call)
              /\ _call' = clear_call(_call)
              /\ calls' = cs
              /\ win' = NoWin
              /\ UNCHANGED <<_deferreds, dstate, kept>>
         [] beh = "return" ->
              /\ _call' = clear_call(_call)
              /\ calls' = release(cs, _deferreds)
              /\ win' = NoWin
              /\ dstate' = [d \in Waiters |->
                              IF d \in Range(_deferreds) THEN "released" ELSE dstate[d]]
              /\ kept' = kept \ Range(_deferreds)
              /\ _deferreds' = <<>>
         [] beh = "reschedule" ->
              /\ now + delay <= MaxTime
              /\ FreeHandles(cs, None) # {}
              /\ LET r == schedule_on(clear_call(_call), cs, delay)
                 IN  /\ _call' = r.call
                     /\ calls' = release(r.calls, _deferreds)
                     /\ win' = OpenWin(r.call, delay, SelfCalls(cs), TRUE)
              /\ dstate' = [d \in Waiters |->
                              IF d \in Range(_deferreds) THEN "released" ELSE dstate[d]]
              /\ kept' = kept \ Range(_deferreds)
              /\ _deferreds' = <<>>
    /\ UNCHANGED <<now, _a>>

\* the reactor runs a due delayed call whose target is the CallLaterOnce
Fire(c, beh, delay) ==
    /\ c \in calls
    /\ c.d = 0
    /\ c.due <= now
    /\ __call__(calls \ {c}, c.h, beh, delay)
    /\ UNCHANGED <<reactorVars, memVars, listenVars>>

\* the CallLaterOnce object is called directly, not by its delayed call
DirectCall(beh, delay) ==
    /\ __call__(calls, None, beh, delay)
    /\ UNCHANGED <<reactorVars, memVars, listenVars>>

\* CallLaterOnce.wait(), up to its await: a Deferred is created and appended
wait ==
    /\ Len(_deferreds) < MaxWaiters
    /\ \E d \in Waiters :
         /\ dstate[d] = "new"
         /\ \A e \in Waiters : dstate[e] = "new" => d <= e
         /\ _deferreds' = Append(_deferreds, d)
         /\ dstate' = [dstate EXCEPT ![d] = "waiting"]
    /\ UNCHANGED <<now, calls, _call, _a, nfired, raised, kept, win, done>>
    /\ UNCHANGED <<reactorVars, memVars, listenVars>>

\* the reactor runs a due d.callback(None): the waiter's await completes
Callback(c) ==
    /\ c \in calls
    /\ c.d # 0
    /\ c.due <= now
    /\ calls' = calls \ {c}
    /\ dstate' = [dstate EXCEPT ![c.d] = "done"]
    /\ UNCHANGED <<now, _call, _deferreds, _a, nfired, raised, kept, win, done>>
    /\ UNCHANGED <<reactorVars, memVars, listenVars>>

\* time passes; the reactor runs a delayed call as soon as it is due
Tick ==
    /\ now < MaxTime
    /\ \A c \in calls : c.due > now
    /\ now' = now + 1
    /\ UNCHANGED <<calls, _call, _deferreds, _a, dstate, nfired, raised, kept, win, done>>
    /\ UNCHANGED <<reactorVars, memVars, listenVars>>

CallLaterOnceStep ==
    \/ \E delay \in Delays : schedule(delay)
    \/ cancel
    \/ \E c \in calls, beh \in Behaviours, delay \in Delays : Fire(c, beh, delay)
    \/ \E beh \in Behaviours, delay \in Delays : DirectCall(beh, delay)
    \/ wait
    \/ \E c \in calls : Callback(c)
    \/ Tick

(***************************************************************************)
(* install_reactor, set_asyncio_event_loop and the verify/is_ queries       *)
(***************************************************************************)
NoReactor == "none"
\* event_loop_path = None
NoPath == "None"

\* reactor classes
AsyncioSelectorReactor == "AsyncioSelectorReactor"

\* import paths of reactors that load_object resolves
ReactorPaths ==
    {"twisted.internet.asyncioreactor.AsyncioSelectorReactor",
     "twisted.internet.selectreactor.SelectReactor",
     "twisted.internet.gireactor.GIReactor",
     "twisted.internet.gireactor.PortableGIReactor"}

\* import paths of event loops that load_object resolves; the first two name
\* the same class
LoopPaths ==
    {"asyncio.SelectorEventLoop",
     "asyncio.unix_events._UnixSelectorEventLoop",
     "uvloop.Loop",
     "asyncio.AbstractEventLoop"}

\* load_object(reactor_path): the class object the path names
load_reactor(path) ==
    CASE path = "twisted.internet.asyncioreactor.AsyncioSelectorReactor" -> AsyncioSelectorReactor
      [] path = "twisted.internet.selectreactor.SelectReactor" -> "SelectReactor"
      [] path = "twisted.internet.gireactor.GIReactor" -> "GIReactor"
      [] path = "twisted.internet.gireactor.PortableGIReactor" -> "PortableGIReactor"

\* global_object_name(reactor_type): module and qualified name of the class
global_object_name(cls) ==
    CASE cls = AsyncioSelectorReactor -> "twisted.internet.asyncioreactor.AsyncioSelectorReactor"
      [] cls = "SelectReactor" -> "twisted.internet.selectreactor.SelectReactor"
      [] cls = "GIReactor" -> "twisted.internet.gireactor.GIReactor"
      [] cls = "PortableGIReactor" -> "twisted.internet.gireactor.PortableGIReactor"
      [] cls = "EPollReactor" -> "twisted.internet.epollreactor.EPollReactor"

\* load_object(".".join([*module, "install"]))(): the reactor that the
\* install() of the path's module installs; gireactor.install() installs
\* GIReactor on posix whichever of its classes the path names
installer_class(path) ==
    CASE path = "twisted.internet.selectreactor.SelectReactor" -> "SelectReactor"
      [] path = "twisted.internet.gireactor.GIReactor" -> "GIReactor"
      [] path = "twisted.internet.gireactor.PortableGIReactor" -> "GIReactor"

\* load_object(event_loop_path)
load_loop(path) ==
    CASE path = "asyncio.SelectorEventLoop" -> "_UnixSelectorEventLoop"
      [] path = "asyncio.unix_events._UnixSelectorEventLoop" -> "_UnixSelectorEventLoop"
      [] path = "uvloop.Loop" -> "Loop"
      [] path = "asyncio.AbstractEventLoop" -> "AbstractEventLoop"

\* the class of the loops asyncio.new_event_loop() and get_event_loop() make
DefaultLoopClass == "_UnixSelectorEventLoop"

\* isinstance(loop, cls) for a loop of class c
isinstance(c, cls) == c = cls \/ cls = "AbstractEventLoop"

\* lines 142-162: asyncio.get_event_loop(), and when there is no current loop
\* (get_event_loop makes one, or raises RuntimeError and new_event_loop and
\* set_event_loop run): a new default loop becomes the current one
get_event_loop(ls, cur) ==
    IF cur # 0
    THEN [loops |-> ls, current |-> cur, loop |-> cur]
    ELSE [loops |-> Append(ls, DefaultLoopClass), current |-> Len(ls) + 1,
          loop |-> Len(ls) + 1]

\* mutant of set_asyncio_event_loop_on: an explicit path always constructs
set_asyncio_event_loop_always(ls, cur, path) ==
    IF path # NoPath
    THEN LET g == get_event_loop(ls, cur)
         IN  [loops |-> Append(g.loops, load_loop(path)),
              current |-> Len(g.loops) + 1, loop |-> Len(g.loops) + 1]
    ELSE get_event_loop(ls, cur)

\* set_asyncio_event_loop(event_loop_path) with loops ls constructed and cur
\* current: the loops, the current loop and the loop returned
set_asyncio_event_loop_on(ls, cur, path) ==
    IF path # NoPath
    THEN LET g == get_event_loop(ls, cur)
         IN  IF ~isinstance(g.loops[g.loop], load_loop(path))
             THEN [loops |-> Append(g.loops, load_loop(path)),
                   current |-> Len(g.loops) + 1, loop |-> Len(g.loops) + 1]
             ELSE g
    ELSE get_event_loop(ls, cur)

\* mutant of reactor_matches: the reactors' modules are compared
reactor_matches_module(cls, path) ==
    \/ cls = load_reactor(path)
    \/ {cls, load_reactor(path)} = {"GIReactor", "PortableGIReactor"}

\* line 179: type(reactor) == load_object(reactor_path)
reactor_matches(cls, path) == cls = load_reactor(path)

NoRes ==
    [op |-> "none", rpath |-> "", lpath |-> "", raised |-> "none", msg |-> <<>>,
     loop |-> 0, ret |-> "None", built |-> {},
     pre |-> [installed |-> NoReactor, current |-> 0]]

\* the record of a call: it raised exc with message msg, or returned ret (and
\* the loop it returned); built: the loop instances it constructed
Outcome(name, rpath, lpath, exc, msg, loop, ret, built) ==
    [op |-> name, rpath |-> rpath, lpath |-> lpath, raised |-> exc, msg |-> msg,
     loop |-> loop, ret |-> ret, built |-> built,
     pre |-> [installed |-> installed, current |-> current_loop]]

InitReactor ==
    /\ installed = NoReactor
    /\ reactor_loop = 0
    /\ current_loop = 0
    /\ loops = <<>>
    /\ res = NoRes
    /\ prev = NoRes

\* set_asyncio_event_loop(event_loop_path)
set_asyncio_event_loop(path) ==
    LET r == set_asyncio_event_loop_on(loops, current_loop, path)
    IN  /\ Len(r.loops) <= MaxLoops
        /\ loops' = r.loops
        /\ current_loop' = r.current
        /\ res' = Outcome("set_asyncio_event_loop", "", path, "none", <<>>, r.loop,
                          "loop", (1..Len(r.loops)) \ (1..Len(loops)))
        /\ prev' = res
        /\ UNCHANGED <<installed, reactor_loop>>
    /\ UNCHANGED <<callVars, memVars, listenVars>>

\* install_reactor(reactor_path, event_loop_path)
install_reactor(rpath, lpath) ==
    /\ IF load_reactor(rpath) = AsyncioSelectorReactor
       THEN \* lines 117-120; ReactorAlreadyInstalledError is raised by
            \* asyncioreactor.install, after set_asyncio_event_loop has run
            LET r == set_asyncio_event_loop_on(loops, current_loop, lpath)
            IN  /\ Len(r.loops) <= MaxLoops
                /\ loops' = r.loops
                /\ current_loop' = r.current
                /\ IF installed = NoReactor
                   THEN installed' = AsyncioSelectorReactor /\ reactor_loop' = r.loop
                   ELSE UNCHANGED <<installed, reactor_loop>>
                /\ res' = Outcome("install_reactor", rpath, lpath, "none", <<>>, 0,
                                  "None", (1..Len(r.loops)) \ (1..Len(loops)))
       ELSE \* lines 122-126
            /\ IF installed = NoReactor
               THEN installed' = installer_class(rpath)
               ELSE UNCHANGED installed
            /\ res' = Outcome("install_reactor", rpath, lpath, "none", <<>>, 0,
                              "None", {})
            /\ UNCHANGED <<reactor_loop, current_loop, loops>>
    /\ prev' = res
    /\ UNCHANGED <<callVars, memVars, listenVars>>

\* is_reactor_installed()
is_reactor_installed ==
    /\ res' = Outcome("is_reactor_installed", "", "", "none", <<>>, 0,
                      IF installed # NoReactor THEN "True" ELSE "False", {})
    /\ prev' = res
    /\ UNCHANGED <<installed, reactor_loop, current_loop, loops>>
    /\ UNCHANGED <<callVars, memVars, listenVars>>

\* verify_installed_reactor(reactor_path)
verify_installed_reactor(rpath) ==
    /\ res' = IF installed = NoReactor
              THEN Outcome("verify_installed_reactor", rpath, "", "RuntimeError",
                           <<"called without an installed reactor">>, 0, "None", {})
              ELSE IF ~reactor_matches(installed, rpath)
              THEN Outcome("verify_installed_reactor", rpath, "", "RuntimeError",
                           <<"does not match", global_object_name(installed), rpath>>,
                           0, "None", {})
              ELSE Outcome("verify_installed_reactor", rpath, "", "none", <<>>, 0,
                           "None", {})
    /\ prev' = res
    /\ UNCHANGED <<installed, reactor_loop, current_loop, loops>>
    /\ UNCHANGED <<callVars, memVars, listenVars>>

\* verify_installed_asyncio_event_loop(loop_path)
verify_installed_asyncio_event_loop(lpath) ==
    /\ res' = IF installed = NoReactor
              THEN Outcome("verify_installed_asyncio_event_loop", "", lpath,
                           "RuntimeError", <<"called without an installed reactor">>,
                           0, "None", {})
              ELSE IF installed # AsyncioSelectorReactor
              THEN \* line 198: the reactor has no _asyncioEventloop
                   Outcome("verify_installed_asyncio_event_loop", "", lpath,
                           "AttributeError", <<"_asyncioEventloop">>, 0, "None", {})
              ELSE IF isinstance(loops[reactor_loop], load_loop(lpath))
              THEN Outcome("verify_installed_asyncio_event_loop", "", lpath, "none",
                           <<>>, 0, "None", {})
              ELSE Outcome("verify_installed_asyncio_event_loop", "", lpath,
                           "RuntimeError",
                           <<"does not match", loops[reactor_loop], load_loop(lpath)>>,
                           0, "None", {})
    /\ prev' = res
    /\ UNCHANGED <<installed, reactor_loop, current_loop, loops>>
    /\ UNCHANGED <<callVars, memVars, listenVars>>

\* mutant of is_asyncio_reactor_installed: as before Scrapy 2.13, the default
\* reactor is installed when none is
is_asyncio_reactor_installed_legacy ==
    /\ installed' = IF installed = NoReactor THEN "SelectReactor" ELSE installed
    /\ res' = Outcome("is_asyncio_reactor_installed", "", "", "none", <<>>, 0,
                      IF installed = AsyncioSelectorReactor THEN "True" ELSE "False",
                      {})
    /\ prev' = res
    /\ UNCHANGED <<reactor_loop, current_loop, loops>>
    /\ UNCHANGED <<callVars, memVars, listenVars>>

\* is_asyncio_reactor_installed()
is_asyncio_reactor_installed ==
    /\ res' = IF installed = NoReactor
              THEN Outcome("is_asyncio_reactor_installed", "", "", "RuntimeError",
                           <<"called without an installed reactor">>, 0, "None", {})
              ELSE Outcome("is_asyncio_reactor_installed", "", "", "none", <<>>, 0,
                           IF installed = AsyncioSelectorReactor THEN "True"
                           ELSE "False", {})
    /\ prev' = res
    /\ UNCHANGED <<installed, reactor_loop, current_loop, loops>>
    /\ UNCHANGED <<callVars, memVars, listenVars>>

ReactorStep ==
    \/ \E l \in LoopPaths \cup {NoPath} : set_asyncio_event_loop(l)
    \/ \E r \in ReactorPaths, l \in LoopPaths \cup {NoPath} : install_reactor(r, l)
    \/ is_reactor_installed
    \/ \E r \in ReactorPaths : verify_installed_reactor(r)
    \/ \E l \in LoopPaths : verify_installed_asyncio_event_loop(l)
    \/ is_asyncio_reactor_installed

(***************************************************************************)
(* listen_tcp                                                              *)
(***************************************************************************)
\* the first port of the ranges asked for
LowPort == 8000

Ports == LowPort..(LowPort + MaxPorts - 1)

\* the port the system picks when listenTCP is asked for port 0
EphemeralPort == 49152

\* port ranges passed to listen_tcp: lists of zero to three ports
PortRanges ==
    {<<>>} \cup {<<p>> : p \in Ports} \cup {<<p, q>> : p, q \in Ports}
    \cup {<<p, q, LowPort>> : p, q \in Ports}

\* the reactor that "from twisted.internet import reactor" installs when none
\* is installed (the platform's default, on Linux)
DefaultReactor == "EPollReactor"

\* line 34: from twisted.internet import reactor
import_reactor(r) == IF r = NoReactor THEN DefaultReactor ELSE r

\* reactor.listenTCP(p, factory, interface=host) with occ occupied: the
\* listener's port, or CannotListenError when p is occupied
listenTCP(occ, p) ==
    IF p = 0
    THEN [kind |-> "listener", port |-> EphemeralPort]
    ELSE IF p \in occ
    THEN [kind |-> "CannotListenError", port |-> p]
    ELSE [kind |-> "listener", port |-> p]

\* the outcome of a listen_tcp call: a listener bound to port, an exception
\* raised for port, or a return without a value; tried: the ports passed to
\* listenTCP, in order
Listened(kind, port, tried) == [kind |-> kind, port |-> port, tried |-> tried]

\* lines 42-47: for x in range(x, hi + 1), with tried attempted so far
RECURSIVE try_ports(_, _, _, _)
try_ports(occ, x, hi, tried) ==
    IF x > hi
    THEN Listened("None", 0, tried)
    ELSE LET r == listenTCP(occ, x)
         IN  IF r.kind = "listener"
             THEN Listened("listener", r.port, Append(tried, x))
             ELSE IF x = hi
             THEN Listened("CannotListenError", x, Append(tried, x))
             ELSE try_ports(occ, x + 1, hi, Append(tried, x))

\* mutant of listen_tcp_on: a range of two ports is tried from its last port
listen_tcp_on_last(occ, portrange) ==
    IF Len(portrange) > 2
    THEN Listened("ValueError", 0, <<>>)
    ELSE IF portrange = <<>>
    THEN Listened("listener", listenTCP(occ, 0).port, <<0>>)
    ELSE LET r == listenTCP(occ, portrange[Len(portrange)])
         IN  Listened(r.kind, r.port, <<portrange[Len(portrange)]>>)

\* listen_tcp(portrange, host, factory) with occ occupied
listen_tcp_on(occ, portrange) ==
    IF Len(portrange) > 2
    THEN Listened("ValueError", 0, <<>>)
    ELSE IF portrange = <<>>
    THEN LET r == listenTCP(occ, 0) IN Listened(r.kind, r.port, <<0>>)
    ELSE IF Len(portrange) = 1
    THEN LET r == listenTCP(occ, portrange[1])
         IN  Listened(r.kind, r.port, <<portrange[1]>>)
    ELSE try_ports(occ, portrange[1], portrange[2], <<>>)

NoListen == [portrange |-> <<>>, occupied |-> {}, kind |-> "nocall", port |-> 0,
             tried |-> <<>>]

InitListen ==
    /\ occupied = {}
    /\ listeners = {}
    /\ lres = NoListen

\* listen_tcp(portrange, host, factory)
listen_tcp(portrange) ==
    /\ LET r == listen_tcp_on(occupied, portrange)
       IN  /\ lres' = [portrange |-> portrange, occupied |-> occupied,
                       kind |-> r.kind, port |-> r.port, tried |-> r.tried]
           /\ occupied' = IF r.kind = "listener" /\ r.port \in Ports
                          THEN occupied \cup {r.port}
                          ELSE occupied
           /\ listeners' = IF r.kind = "listener"
                           THEN listeners \cup {r.port}
                           ELSE listeners
    /\ installed' = import_reactor(installed)
    /\ UNCHANGED <<reactor_loop, current_loop, loops, res, prev>>
    /\ UNCHANGED <<callVars, memVars>>

\* another program of the host starts to listen on port p
bind_other(p) ==
    /\ p \notin occupied
    /\ occupied' = occupied \cup {p}
    /\ UNCHANGED <<listeners, lres>>
    /\ UNCHANGED <<callVars, reactorVars, memVars>>

\* whatever listens on port p stops listening
stop_listening(p) ==
    /\ p \in occupied
    /\ occupied' = occupied \ {p}
    /\ listeners' = listeners \ {p}
    /\ UNCHANGED lres
    /\ UNCHANGED <<callVars, reactorVars, memVars>>

ListenStep ==
    \/ \E portrange \in PortRanges : listen_tcp(portrange)
    \/ \E p \in Ports : bind_other(p)
    \/ \E p \in Ports : stop_listening(p)

(***************************************************************************)
(* MemoryUsage                                                             *)
(***************************************************************************)
MiB == 1024 * 1024

\* values of MEMUSAGE_LIMIT_MB and MEMUSAGE_WARNING_MB
ThresholdsMB == {0, 1}

\* values of ru_maxrss, as getrusage reports them
RawSamples == {1024, 2048, MiB + 1}

\* stats.set_value(key, v)
set_value(st, key, v) ==
    [k \in DOMAIN st \cup {key} |-> IF k = key THEN v ELSE st[k]]

\* stats.max_value(key, v)
max_value(st, key, v) ==
    IF key \in DOMAIN st /\ st[key] >= v THEN st ELSE set_value(st, key, v)

\* get_virtual_size() when ru_maxrss is raw
get_virtual_size(raw) == IF platform # "darwin" THEN raw * 1024 ELSE raw

NoOut ==
    [limit_mails |-> 0, limit_errors |-> 0, warning_mails |-> 0, warning_logs |-> 0,
     close_spider |-> 0, stop |-> 0, ticks |-> 0]

\* the monitor's own state, as its methods read and write it
Monitor == [warned |-> warned, stats |-> stats, out |-> out]

\* update()
update_on(m, raw) ==
    [m EXCEPT !.stats = max_value(@, "memusage/max", get_virtual_size(raw))]

\* mutant of check_limit_on: the shutdown is requested only when the report
\* was mailed
check_limit_on_mailed(m, raw) ==
    IF get_virtual_size(raw) > limit
    THEN LET reached == [m EXCEPT !.stats = set_value(@, "memusage/limit_reached", 1),
                                  !.out.limit_errors = @ + 1]
         IN  IF notify_mails # <<>>
             THEN LET notified ==
                        [reached EXCEPT
                           !.out.limit_mails = @ + 1,
                           !.stats = set_value(@, "memusage/limit_notified", 1)]
                  IN  IF spider
                      THEN [notified EXCEPT !.out.close_spider = @ + 1]
                      ELSE [notified EXCEPT !.out.stop = @ + 1]
             ELSE reached
    ELSE m

\* _check_limit()
check_limit_on(m, raw) ==
    IF get_virtual_size(raw) > limit
    THEN LET reached == [m EXCEPT !.stats = set_value(@, "memusage/limit_reached", 1),
                                  !.out.limit_errors = @ + 1]
             notified == IF notify_mails # <<>>
                         THEN [reached EXCEPT
                                 !.out.limit_mails = @ + 1,
                                 !.stats = set_value(@, "memusage/limit_notified", 1)]
                         ELSE reached
         IN  IF spider
             THEN [notified EXCEPT !.out.close_spider = @ + 1]
             ELSE [notified EXCEPT !.out.stop = @ + 1]
    ELSE m

\* mutant of check_warning_on: without the "warn only once" return
check_warning_always(m, raw) ==
    IF get_virtual_size(raw) > warning
    THEN LET reached == [m EXCEPT !.stats = set_value(@, "memusage/warning_reached", 1),
                                  !.out.warning_logs = @ + 1]
             notified == IF notify_mails # <<>>
                         THEN [reached EXCEPT
                                 !.out.warning_mails = @ + 1,
                                 !.stats = set_value(@, "memusage/warning_notified", 1)]
                         ELSE reached
         IN  [notified EXCEPT !.warned = TRUE]
    ELSE m

\* _check_warning()
check_warning_on(m, raw) ==
    IF m.warned
    THEN m
    ELSE IF get_virtual_size(raw) > warning
    THEN LET reached == [m EXCEPT !.stats = set_value(@, "memusage/warning_reached", 1),
                                  !.out.warning_logs = @ + 1]
             notified == IF notify_mails # <<>>
                         THEN [reached EXCEPT
                                 !.out.warning_mails = @ + 1,
                                 !.stats = set_value(@, "memusage/warning_notified", 1)]
                         ELSE reached
         IN  [notified EXCEPT !.warned = TRUE]
    ELSE m

\* the looping call that engine_started number n creates for method f
Task(n, f) == [run |-> n, f |-> f]

\* mutant of started_tasks: the warning task is started and not kept
started_tasks_untracked(n) ==
    <<Task(n, "update")>> \o (IF limit # 0 THEN <<Task(n, "_check_limit")>> ELSE <<>>)

\* engine_started: the looping calls appended to self.tasks
started_tasks(n) ==
    <<Task(n, "update")>>
    \o (IF limit # 0 THEN <<Task(n, "_check_limit")>> ELSE <<>>)
    \o (IF warning # 0 THEN <<Task(n, "_check_warning")>> ELSE <<>>)

\* mutant of created_tasks: the three looping calls are always started
created_tasks_all(n) ==
    {Task(n, "update"), Task(n, "_check_limit"), Task(n, "_check_warning")}

\* engine_started: the looping calls created and started
created_tasks(n) ==
    {Task(n, "update")}
    \cup (IF limit # 0 THEN {Task(n, "_check_limit")} ELSE {})
    \cup (IF warning # 0 THEN {Task(n, "_check_warning")} ELSE {})

\* engine_stopped: every task of self.tasks that is running is stopped
stop_tasks(ts, rn) == rn \ Range(ts)

Last(name, raw) == [op |-> name, raw |-> raw, warned |-> warned, phase |-> phase]

InitMemoryUsage ==
    /\ \E l \in ThresholdsMB, w \in ThresholdsMB :
         limit = l * MiB /\ warning = w * MiB
    /\ notify_mails \in {<<>>, <<"ops@example.com">>}
    /\ platform \in {"linux", "darwin"}
    /\ warned = FALSE
    /\ stats = [k \in {} |-> 0]
    /\ tasks = <<>>
    /\ running = {}
    /\ phase = "idle"
    /\ run = 0
    /\ spider \in BOOLEAN
    /\ out = NoOut
    /\ last = [op |-> "init", raw |-> 0, warned |-> FALSE, phase |-> "idle"]

\* engine_started; every looping call is started with now=True, so each
\* method runs once inside the handler, in the order the tasks are started.
\* r0..r3 are the samples of the four get_virtual_size() calls.
engine_started(r0, r1, r2, r3) ==
    /\ phase # "running"
    /\ run < MaxRuns
    /\ LET m0 == [Monitor EXCEPT
                    !.stats = set_value(@, "memusage/startup", get_virtual_size(r0)),
                    !.out = NoOut]
           m1 == update_on(m0, r1)
           m2 == IF limit # 0 THEN check_limit_on(m1, r2) ELSE m1
           m3 == IF warning # 0 THEN check_warning_on(m2, r3) ELSE m2
       IN  /\ warned' = m3.warned
           /\ stats' = m3.stats
           /\ out' = m3.out
    /\ tasks' = started_tasks(run + 1)
    /\ running' = running \cup created_tasks(run + 1)
    /\ run' = run + 1
    /\ phase' = "running"
    /\ last' = Last("engine_started", r0)
    /\ UNCHANGED <<limit, warning, notify_mails, platform, spider>>
    /\ UNCHANGED <<callVars, reactorVars, listenVars>>

\* engine_stopped
engine_stopped ==
    /\ phase # "idle"
    /\ running' = stop_tasks(tasks, running)
    /\ phase' = "stopped"
    /\ last' = Last("engine_stopped", 0)
    /\ UNCHANGED <<limit, warning, notify_mails, platform, warned, stats, tasks, run,
                   spider, out>>
    /\ UNCHANGED <<callVars, reactorVars, listenVars>>

\* a running looping call runs method f with the sample raw
TickOf(f, raw, m) ==
    /\ \E t \in running : t.f = f
    /\ out.ticks < MaxTicks
    /\ warned' = m.warned
    /\ stats' = m.stats
    /\ out' = [m.out EXCEPT !.ticks = @ + 1]
    /\ last' = Last(f, raw)
    /\ UNCHANGED <<limit, warning, notify_mails, platform, tasks, running, phase, run,
                   spider>>
    /\ UNCHANGED <<callVars, reactorVars, listenVars>>

update(raw) == TickOf("update", raw, update_on(Monitor, raw))

_check_limit(raw) == TickOf("_check_limit", raw, check_limit_on(Monitor, raw))

_check_warning(raw) == TickOf("_check_warning", raw, check_warning_on(Monitor, raw))

\* the engine closes the spider after close_spider was requested
spider_closed ==
    /\ phase = "running"
    /\ spider
    /\ out.close_spider > 0
    /\ spider' = FALSE
    /\ last' = Last("spider_closed", 0)
    /\ UNCHANGED <<limit, warning, notify_mails, platform, warned, stats, tasks,
                   running, phase, run, out>>
    /\ UNCHANGED <<callVars, reactorVars, listenVars>>

MemoryUsageStep ==
    \/ \E r0, r1, r2, r3 \in RawSamples : engine_started(r0, r1, r2, r3)
    \/ engine_stopped
    \/ \E raw \in RawSamples : update(raw)
    \/ \E raw \in RawSamples : _check_limit(raw)
    \/ \E raw \in RawSamples : _check_warning(raw)
    \/ spider_closed

(***************************************************************************)
(* Specifications                                                          *)
(***************************************************************************)
\* the state of the parts a specification leaves alone
IdleCallLaterOnce == InitCallLaterOnce /\ _a = "a1"

IdleMemoryUsage ==
    /\ InitMemoryUsage
    /\ limit = 0 /\ warning = 0 /\ notify_mails = <<>>
    /\ platform = "linux" /\ spider = FALSE

\* CallLaterOnce and the reactor's delayed calls
InitCall == InitCallLaterOnce /\ InitReactor /\ IdleMemoryUsage /\ InitListen

NextCall == CallLaterOnceStep

SpecCall == InitCall /\ [][NextCall]_vars

\* reactor and event loop installation and its queries
InitReact == IdleCallLaterOnce /\ InitReactor /\ IdleMemoryUsage /\ InitListen

NextReactor == ReactorStep

SpecReactor == InitReact /\ [][NextReactor]_vars

\* the MemoryUsage extension
InitMem == IdleCallLaterOnce /\ InitReactor /\ InitMemoryUsage /\ InitListen

NextMem == MemoryUsageStep

SpecMem == InitMem /\ [][NextMem]_vars

\* listen_tcp and the ports of the host
InitListenTcp == IdleCallLaterOnce /\ InitReactor /\ IdleMemoryUsage /\ InitListen

NextListen == ListenStep

SpecListen == InitListenTcp /\ [][NextListen]_vars

(***************************************************************************)
(* CallLaterOnce: the claims                                               *)
(***************************************************************************)

\* C1: in a window that a schedule(delay) opens with nothing of the object
\* pending and in which only schedule() is called, exactly one delayed call of
\* the object is pending, the one the first schedule created, due at that
\* schedule's time plus its delay; and the invocation that ends the window
\* runs at that time with the arguments bound to the instance.
C1_Coalescing ==
    /\ (win.open /\ win.clean) =>
          /\ _call = win.h
          /\ SelfCalls(calls) = {[h |-> win.h, due |-> win.due, d |-> 0]}
    /\ (done.valid /\ done.clean) => (done.at = done.due /\ done.args = _a)

\* C1 witness: a window with a later schedule() asking for another time has
\* ended in its fire, after a positive delay.
C1_Witness == done.valid /\ done.clean /\ done.multi /\ done.due > 0 /\ ~raised

\* C2 (as claimed): every invocation of the callable releases every waiter
\* registered before it, a waiter is released only by an invocation, and a
\* waiter observes completion only after it was released.
C2_EveryFireReleasesWaiters ==
    [][\A d \in Waiters :
          /\ (nfired' = nfired + 1 /\ dstate[d] = "waiting") => dstate'[d] = "released"
          /\ (dstate'[d] = "released" /\ dstate[d] # "released") => nfired' = nfired + 1
          /\ (dstate'[d] = "done" /\ dstate[d] # "done") => dstate[d] = "released"
      ]_vars

\* C3 (as claimed): whenever no invocation of the object is pending in the
\* reactor, as after cancel(), a schedule(delay) makes one pending.
C3_ScheduleAfterCancel ==
    SelfCalls(calls) = {} =>
        \A delay \in Delays :
            now + delay <= MaxTime =>
                SelfCalls(schedule_on(_call, calls, delay).calls) # {}

(***************************************************************************)
(* Reactor installation: the claims                                        *)
(***************************************************************************)
InstallStep ==
    \E r \in ReactorPaths, l \in LoopPaths \cup {NoPath} : install_reactor(r, l)

\* C4 (as claimed): an install_reactor call made while a reactor is installed
\* raises nothing and changes neither the installed reactor, nor the event
\* loop of the installed reactor, nor the event loop bound as current.
C4_SecondInstallIsNoOp ==
    [][(installed # NoReactor /\ InstallStep) =>
          (res'.raised = "none" /\ UNCHANGED <<installed, reactor_loop, current_loop>>)
      ]_vars

\* C5: once a reactor is installed no call replaces it, and
\* verify_installed_reactor(X) returns normally exactly when X resolves to the
\* class of the installed reactor; otherwise it raises the error that names
\* the installed reactor and the requested path.
C5_MonotonicInstallAndVerify ==
    [][/\ installed # NoReactor => installed' = installed
       /\ \A r \in ReactorPaths :
            (installed # NoReactor /\ verify_installed_reactor(r)) =>
               /\ (res'.raised = "none") <=> (load_reactor(r) = installed)
               /\ res'.raised # "none" =>
                    /\ res'.raised = "RuntimeError"
                    /\ res'.msg = <<"does not match", global_object_name(installed), r>>
      ]_vars

\* C5 witness: after a second install_reactor call, verify_installed_reactor
\* of a path of the installed reactor's module that names another class fails.
C5_Witness ==
    /\ prev.op = "install_reactor"
    /\ prev.pre.installed # NoReactor
    /\ res.op = "verify_installed_reactor"
    /\ res.rpath = "twisted.internet.gireactor.PortableGIReactor"
    /\ installed = "GIReactor"
    /\ res.raised = "RuntimeError"

QueryStep ==
    \/ \E r \in ReactorPaths : verify_installed_reactor(r)
    \/ \E l \in LoopPaths : verify_installed_asyncio_event_loop(l)
    \/ is_asyncio_reactor_installed

\* C6: while no reactor is installed, verify_installed_reactor,
\* verify_installed_asyncio_event_loop and is_asyncio_reactor_installed raise,
\* and no reactor is installed after the call.
C6_QueriesBeforeInstallRaise ==
    [][(installed = NoReactor /\ QueryStep) =>
          /\ res'.raised = "RuntimeError"
          /\ res'.msg = <<"called without an installed reactor">>
          /\ installed' = NoReactor
      ]_vars

\* C6 witness: two of the queries have failed in a row with no reactor installed.
C6_Witness ==
    /\ installed = NoReactor
    /\ prev.op = "verify_installed_asyncio_event_loop"
    /\ prev.raised = "RuntimeError"
    /\ res.op = "is_asyncio_reactor_installed"
    /\ res.raised = "RuntimeError"

\* C7: two set_asyncio_event_loop calls in a row with the same explicit path
\* construct at most one loop of that class and return the same loop, which
\* is the current one; a call without a path returns the current loop if
\* there is one, and otherwise constructs one loop, binds and returns it.
C7_SetLoopIdempotent ==
    /\ ( /\ res.op = "set_asyncio_event_loop"
         /\ prev.op = "set_asyncio_event_loop"
         /\ res.lpath = prev.lpath
         /\ res.lpath # NoPath ) =>
           /\ res.raised = "none"
           /\ res.loop = prev.loop
           /\ current_loop = res.loop
           /\ Cardinality({i \in res.built \cup prev.built :
                              loops[i] = load_loop(res.lpath)}) <= 1
    /\ (res.op = "set_asyncio_event_loop" /\ res.lpath = NoPath) =>
           /\ res.raised = "none"
           /\ current_loop = res.loop
           /\ IF res.pre.current # 0
              THEN res.loop = res.pre.current /\ res.built = {}
              ELSE res.built = {res.loop}

\* C7 witness: the first of two calls with "uvloop.Loop" constructed the loop
\* and the second constructed none.
C7_Witness ==
    /\ res.op = "set_asyncio_event_loop"
    /\ prev.op = "set_asyncio_event_loop"
    /\ res.lpath = "uvloop.Loop"
    /\ prev.lpath = "uvloop.Loop"
    /\ prev.built # {}
    /\ res.built = {}

(***************************************************************************)
(* MemoryUsage: the claims                                                 *)
(***************************************************************************)

\* C8 (as claimed): with a limit and recipients configured, a run sends at
\* most one limit report mail and logs at most one limit error, however many
\* _check_limit ticks see a sample above the limit.
C8_LimitNotifiedOnce ==
    (limit # 0 /\ notify_mails # <<>>) =>
        (out.limit_mails <= 1 /\ out.limit_errors <= 1)

\* C9: a run logs at most one warning and sends at most one warning mail;
\* a _check_warning tick that sees a sample above the threshold sets warned,
\* warned stays set, and a tick that begins with warned set changes nothing.
C9_WarnedOnce ==
    [][/\ warned => warned'
       /\ out'.warning_logs <= 1
       /\ out'.warning_mails <= 1
       /\ \A raw \in RawSamples :
            /\ (warned /\ _check_warning(raw)) =>
                  (stats' = stats /\ out' = [out EXCEPT !.ticks = @ + 1])
            /\ (_check_warning(raw) /\ get_virtual_size(raw) > warning) => warned'
      ]_vars

\* C9 witness: a _check_warning tick began with warned set and saw a sample
\* above the threshold, after the one warning of the run.
C9_Witness ==
    /\ last.op = "_check_warning"
    /\ last.warned
    /\ get_virtual_size(last.raw) > warning
    /\ out.warning_logs = 1
    /\ notify_mails # <<>>
    /\ out.warning_mails = 1

\* C10: once engine_stopped is handled no looping call of the monitor is
\* running, and until the next engine_started nothing of the monitor changes:
\* no tick occurs and a second engine_stopped changes nothing.
C10_StopStopsEverything ==
    [][/\ phase' = "stopped" => running' = {}
       /\ (phase = "stopped" /\ phase' = "stopped") =>
             UNCHANGED <<warned, stats, out, tasks, running, spider>>
      ]_vars

\* C10 witness: engine_stopped was delivered a second time in a row, in a run
\* that ticked and in which the limit check was never started.
C10_Witness ==
    /\ last.op = "engine_stopped"
    /\ last.phase = "stopped"
    /\ limit = 0
    /\ warning # 0
    /\ out.ticks > 0

(***************************************************************************)
(* listen_tcp: the claims                                                  *)
(***************************************************************************)

\* C11: a listen_tcp call over [low, high] with low <= high passes the ports
\* low, low + 1, ... to listenTCP in that order and returns the listener of
\* the lowest port of the range that is not occupied; when all are occupied
\* it raises the CannotListenError of high, the last port tried; a range of
\* more than two entries raises ValueError and no port is tried.
C11_ListenTcpRange ==
    /\ (lres.kind # "nocall" /\ Len(lres.portrange) = 2
        /\ lres.portrange[1] <= lres.portrange[2]) =>
          LET lo == lres.portrange[1]
              hi == lres.portrange[2]
              free == {p \in lo..hi : p \notin lres.occupied}
          IN  /\ \A i \in DOMAIN lres.tried : lres.tried[i] = lo + i - 1
              /\ IF free # {}
                 THEN /\ lres.kind = "listener"
                      /\ \A p \in free : lres.port <= p
                      /\ lres.port \in free
                      /\ lres.tried[Len(lres.tried)] = lres.port
                 ELSE /\ lres.kind = "CannotListenError"
                      /\ lres.port = hi
                      /\ Len(lres.tried) = hi - lo + 1
    /\ Len(lres.portrange) > 2 => (lres.kind = "ValueError" /\ lres.tried = <<>>)

\* C11 witness: over [8000, 8002] with 8000 and 8001 occupied the listener of
\* 8002 was returned after the three ports were tried in order.
C11_Witness ==
    /\ lres.portrange = <<LowPort, LowPort + 2>>
    /\ lres.occupied = {LowPort, LowPort + 1}
    /\ lres.kind = "listener"
    /\ lres.port = LowPort + 2
    /\ lres.tried = <<LowPort, LowPort + 1, LowPort + 2>>

\* C20 (as claimed): a listen_tcp call with a range of at most two entries
\* returns a listener or raises; it never returns without a listener.
C20_DefiniteOutcome ==
    (lres.kind # "nocall" /\ Len(lres.portrange) <= 2) =>
        lres.kind \in {"listener", "CannotListenError"}

(***************************************************************************)
(* CallLaterOnce: direct calls, failing callables, order, cancel           *)
(***************************************************************************)

\* C12 (as claimed): in every reachable state at most one delayed call of the
\* CallLaterOnce object is pending in the reactor.
C12_SinglePending == Cardinality(SelfCalls(calls)) <= 1

\* C13 (as claimed): an invocation whose callable raises releases every
\* waiter registered before it and leaves the waiter list empty.
C13_RaisingFireReleasesWaiters ==
    [][(nfired' = nfired + 1 /\ raised') =>
          /\ \A i \in DOMAIN _deferreds : dstate'[_deferreds[i]] = "released"
          /\ _deferreds' = <<>>
      ]_vars

\* C14 (as claimed): when a delayed call of the object begins an invocation
\* of the callable, every waiter that an earlier invocation released has been
\* notified: none is still waiting for its callback to run.
C14_FiresAreSequential ==
    [][(\E c \in calls, beh \in Behaviours, delay \in Delays : Fire(c, beh, delay)) =>
          \A d \in Waiters : dstate[d] # "released"
      ]_vars

\* the delayed calls of the object that are pending in cs1 and not in cs0
NewSelfCalls(cs0, cs1) == SelfCalls(cs1) \ SelfCalls(cs0)

\* C15: an invocation whose callable calls schedule(delay) leaves exactly one
\* new delayed call of the object pending, the one self._call refers to, due
\* delay after the invocation; this holds for the invocation run by the
\* delayed call and for a direct call.
C15_RescheduleInsideCallable ==
    [][\A delay \in Delays :
          /\ \A c \in calls :
               Fire(c, "reschedule", delay) =>
                  /\ _call' # None
                  /\ NewSelfCalls(calls \ {c}, calls') =
                        {[h |-> _call', due |-> now + delay, d |-> 0]}
          /\ DirectCall("reschedule", delay) =>
                  /\ _call' # None
                  /\ NewSelfCalls(calls, calls') =
                        {[h |-> _call', due |-> now + delay, d |-> 0]}
      ]_vars

\* C15 witness: the delayed call that the callable scheduled during the first
\* invocation has run the second invocation, at its time.
C15_Witness == done.valid /\ done.byfire /\ done.clean /\ nfired = 2 /\ done.at = done.due

\* C16 (as claimed): cancel() changes neither the waiter list nor any waiter,
\* and the next invocation of the callable releases every waiter that was
\* registered when cancel() was called.
C16_CancelKeepsWaiters ==
    [][/\ cancel => UNCHANGED <<_deferreds, dstate>>
       /\ nfired' = nfired + 1 => \A d \in kept : dstate'[d] = "released"
      ]_vars

(***************************************************************************)
(* MemoryUsage: runs, the task set, the shutdown request                   *)
(***************************************************************************)

\* C17 (as claimed): an engine_started delivered after an engine_stopped
\* begins with the warned flag clear: when a warning threshold is set and the
\* sample of its first _check_warning is above it, the warning is logged in
\* the new run and the tasks are those of the new run.
C17_FreshStatePerRun ==
    [][\A r0, r1, r2, r3 \in RawSamples :
          ( /\ phase = "stopped"
            /\ warning # 0
            /\ get_virtual_size(r3) > warning
            /\ engine_started(r0, r1, r2, r3) ) =>
               /\ out'.warning_logs = 1
               /\ \A i \in DOMAIN tasks' : tasks'[i].run = run'
      ]_vars

\* C18: while the engine runs the update task of the run is running, the
\* _check_limit task is running exactly when the limit is not zero, and the
\* _check_warning task exactly when the warning threshold is not zero; with a
\* limit of zero no limit breach is ever recorded, logged, mailed or acted
\* on, and with a warning threshold of zero no warning ever is.
C18_TaskSetAsymmetry ==
    /\ phase = "running" =>
          /\ Task(run, "update") \in running
          /\ Task(run, "_check_limit") \in running <=> limit # 0
          /\ Task(run, "_check_warning") \in running <=> warning # 0
          /\ \A t \in running : t.run = run
    /\ limit = 0 =>
          /\ out.limit_mails = 0 /\ out.limit_errors = 0
          /\ out.close_spider = 0 /\ out.stop = 0
          /\ DOMAIN stats \cap {"memusage/limit_reached", "memusage/limit_notified"} = {}
    /\ warning = 0 =>
          /\ out.warning_mails = 0 /\ out.warning_logs = 0
          /\ ~warned
          /\ DOMAIN stats \cap {"memusage/warning_reached", "memusage/warning_notified"} = {}

\* C18 witness: with no limit and a warning threshold, a tick of the update
\* task has recorded a peak above the threshold and the warning was issued.
C18_Witness ==
    /\ limit = 0
    /\ warning # 0
    /\ phase = "running"
    /\ last.op = "update"
    /\ stats["memusage/max"] > warning
    /\ warned

\* C19: a _check_limit tick whose sample is strictly greater than the limit
\* makes exactly one shutdown request, close_spider when a spider is open and
\* crawler.stop otherwise, with or without recipients; a tick whose sample is
\* not greater makes no request and changes no statistic.
C19_OneShutdownRequestPerBreach ==
    [][\A raw \in RawSamples :
          _check_limit(raw) =>
             IF get_virtual_size(raw) > limit
             THEN /\ out'.close_spider = out.close_spider + (IF spider THEN 1 ELSE 0)
                  /\ out'.stop = out.stop + (IF spider THEN 0 ELSE 1)
             ELSE /\ out'.close_spider = out.close_spider
                  /\ out'.stop = out.stop
                  /\ stats' = stats
      ]_vars

\* C19 witness: without recipients, a _check_limit tick above the limit with
\* no spider open has asked the crawler to stop.
C19_Witness ==
    /\ last.op = "_check_limit"
    /\ limit # 0
    /\ get_virtual_size(last.raw) > limit
    /\ notify_mails = <<>>
    /\ ~spider
    /\ out.stop >= 1
    /\ out.close_spider = 0

====
